---- MODULE Spec2Model ----
(***************************************************************************)
(* A model of two landlab components:                                      *)
(*   PitFiller  (components/sink_fill/pit_fill_pf.py), the Priority-Flood  *)
(*              depression filler, and                                     *)
(*   ChiFinder  (components/chi_index/channel_chi.py), the chi index.      *)
(* Each component has a specification of its own (SpecPitFill, SpecChi);   *)
(* the variables of the other component stay at their initial values.      *)
(***************************************************************************)
EXTENDS Integers, Sequences, FiniteSets

VARIABLES
    \* ---- the grid
    status_at_node,   \* grid.status_at_node (fixed during a run)
    \* ---- PitFiller
    z0,               \* the elevation field before the first fill (history)
    grid_elev,        \* grid.at_node['topographic__elevation']
    dem,              \* PitFiller._dem
    closed,           \* pit_fill's local array closed
    raised_node,      \* pit_fill's local FIFO Queue.Queue
    priority_queue,   \* pit_fill's local Queue.PriorityQueue
    pc,               \* "idle" (outside pit_fill) or "flood" (in its loop)
    fills,            \* completed pit_fill calls: "none", "one", "several"
    first_fill,       \* the elevation field the first pit_fill returned (history)
    \* ---- the flow network in the grid
    flow_receiver,            \* grid.at_node['flow_receiver']
    upstream_node_order,      \* grid.at_node['upstream_node_order']
    links_to_flow_receiver,   \* grid.at_node['links_to_flow_receiver']
    link_length,              \* grid.link_length
    drainage_area,            \* grid.at_node['drainage_area']
    \* ---- ChiFinder
    ctor,             \* the keyword arguments the ChiFinder was built with
    defaults,         \* _reftheta, min_drainage, _A0 and use_true_dx
    chi,              \* ChiFinder.chi, the field channel__chi_index
    mask,             \* ChiFinder._mask
    outcome,          \* what happened last: "constructed", "routed" (the flow
                      \* router ran), "returned" (calculate_chi returned) or
                      \* "AssertionError" (calculate_chi raised it)
    last,             \* <<the options in force in the call that returned last>>
    fresh_chi,        \* chi of a newly built ChiFinder after the same last call
    fresh_mask,       \* its mask
    overwritten       \* whether the last call found a nonzero chi at a node
                      \* where the newly built ChiFinder has 0 (history)

pitVars == <<z0, grid_elev, dem, closed, raised_node, priority_queue, pc, fills,
             first_fill>>

chiVars == <<flow_receiver, upstream_node_order, links_to_flow_receiver,
             link_length, drainage_area, ctor, defaults, chi, mask, outcome,
             last, fresh_chi, fresh_mask, overwritten>>

vars == <<status_at_node, pitVars, chiVars>>

\* the variables of the component a specification does not run
PitFillerUnused ==
    /\ z0 = <<>>
    /\ grid_elev = <<>>
    /\ dem = <<>>
    /\ closed = <<>>
    /\ raised_node = <<>>
    /\ priority_queue = {}
    /\ pc = "idle"
    /\ fills = "none"
    /\ first_fill = <<>>

ChiFinderUnused ==
    /\ flow_receiver = <<>>
    /\ upstream_node_order = <<>>
    /\ links_to_flow_receiver = <<>>
    /\ link_length = <<>>
    /\ drainage_area = <<>>
    /\ ctor = <<>>
    /\ defaults = <<>>
    /\ chi = <<>>
    /\ mask = <<>>
    /\ outcome = "constructed"
    /\ last = <<>>
    /\ fresh_chi = <<>>
    /\ fresh_mask = <<>>
    /\ overwritten = FALSE

(***************************************************************************)
(* Bounds of the model.                                                    *)
(***************************************************************************)
\* elevations are drawn from 0..MaxElev
MaxElev == 2

(***************************************************************************)
(* The raster grid handed to PitFiller.                                    *)
(***************************************************************************)
\* landlab's "no node here" value, before line 26 turns it into -1
BAD_INDEX_VALUE == 2147483647

\* node status values of landlab: core, fixed value, fixed gradient,
\* looped (tracks cell), closed
CORE_NODE == 0
FIXED_VALUE_BOUNDARY == 1
FIXED_GRADIENT_BOUNDARY == 2
LOOPED_BOUNDARY == 3
CLOSED_BOUNDARY == 4

\* (rows, columns) of the raster: nodes are numbered row by row from 0
Shape == <<2, 3>>

number_of_nodes == Shape[1] * Shape[2]

Nodes == 0 .. (number_of_nodes - 1)

NodeAt(r, c) ==
    IF r >= 0 /\ r < Shape[1] /\ c >= 0 /\ c < Shape[2]
    THEN r * Shape[2] + c
    ELSE BAD_INDEX_VALUE

\* grid.neighbors_at_node: east, north, west, south
neighbors_at_node(n) ==
    LET r == n \div Shape[2]
        c == n % Shape[2]
    IN  <<NodeAt(r, c + 1), NodeAt(r + 1, c), NodeAt(r, c - 1), NodeAt(r - 1, c)>>

\* grid.diagonals_at_node: north-east, north-west, south-west, south-east
diagonals_at_node(n) ==
    LET r == n \div Shape[2]
        c == n % Shape[2]
    IN  <<NodeAt(r + 1, c + 1), NodeAt(r + 1, c - 1),
          NodeAt(r - 1, c - 1), NodeAt(r - 1, c + 1)>>

\* line 25: both lists side by side
Concatenated(n) == neighbors_at_node(n) \o diagonals_at_node(n)

\* PitFiller._neighbors, lines 25-26: BAD_INDEX_VALUE replaced by -1
Neighbors ==
    [n \in Nodes |->
        [i \in 1 .. Len(Concatenated(n)) |->
            IF Concatenated(n)[i] = BAD_INDEX_VALUE THEN -1 ELSE Concatenated(n)[i]]]

\* PitFiller._open_boundary: status 1 or 2
OpenBoundary == {n \in Nodes : status_at_node[n] = FIXED_VALUE_BOUNDARY
                               \/ status_at_node[n] = FIXED_GRADIENT_BOUNDARY}

\* the status arrays the model runs on (one entry per node 0..5)
StatusChoices ==
    { <<1, 1, 1, 1, 1, 1>>,     \* landlab's default: the whole perimeter open
      <<1, 0, 0, 0, 0, 0>>,     \* one open corner
      <<0, 0, 0, 0, 0, 0>>,     \* no boundary at all
      <<4, 4, 4, 0, 0, 0>>,     \* closed nodes, no open one
      <<0, 4, 1, 4, 4, 0>>,     \* node 0 walled in by closed nodes 1, 3, 4
      <<2, 0, 0, 0, 0, 4>>,     \* fixed gradient corner, closed opposite corner
      <<0, 1, 0, 0, 0, 0>>,     \* one open node next to every other node
      <<3, 0, 2, 0, 0, 1>>,     \* two open corners; a looped node is not open
      <<4, 0, 0, 4, 0, 1>> }    \* closed edge, open corner

StatusArray(t) == [n \in Nodes |-> t[n + 1]]

Elevations == 0 .. MaxElev

(***************************************************************************)
(* PitFiller.pit_fill                                                      *)
(***************************************************************************)
\* tuple order of Python on (elevation, node) pairs
TupleLess(a, b) == a[1] < b[1] \/ (a[1] = b[1] /\ a[2] < b[2])

\* a PriorityQueue of maxsize entries hands out its smallest entry
PriorityGetMax(q) == CHOOSE a \in q : \A b \in q : a = b \/ TupleLess(b, a)

PriorityGet(q) == CHOOSE a \in q : \A b \in q : a = b \/ TupleLess(a, b)

\* line 57: the neighbour is at or below the flood level of node
ShouldRaiseStrictlyAbove(d, neighbor_node, node) == d[neighbor_node] >= d[node]

ShouldRaise(d, neighbor_node, node) == d[neighbor_node] <= d[node]

\* line 58: the elevation a flooded neighbour gets
RaisedElevationKept(d, neighbor_node, node) == d[neighbor_node]

RaisedElevationOneStep(d, neighbor_node, node) ==
    IF d[neighbor_node] < d[node] THEN d[neighbor_node] + 1 ELSE d[node]

RaisedElevation(d, neighbor_node, node) == d[node]

\* lines 52-61 without line 56: the neighbour is queued and not marked
VisitUnmarked(st, node, neighbor_node) ==
    IF neighbor_node = -1 THEN st
    ELSE IF st.closed[neighbor_node] THEN st
    ELSE IF ShouldRaise(st.dem, neighbor_node, node)
         THEN [st EXCEPT !.dem[neighbor_node] =
                             RaisedElevation(st.dem, neighbor_node, node),
                         !.raised = Append(@, neighbor_node)]
         ELSE [st EXCEPT !.pq = @ \cup {<<st.dem[neighbor_node], neighbor_node>>}]

\* lines 52-61: one pass of the body of the for loop
Visit(st, node, neighbor_node) ==
    IF neighbor_node = -1 THEN st
    ELSE IF st.closed[neighbor_node] THEN st
    ELSE IF ShouldRaise(st.dem, neighbor_node, node)
         THEN [st EXCEPT !.closed[neighbor_node] = TRUE,
                         !.dem[neighbor_node] =
                             RaisedElevation(st.dem, neighbor_node, node),
                         !.raised = Append(@, neighbor_node)]
         ELSE [st EXCEPT !.closed[neighbor_node] = TRUE,
                         !.pq = @ \cup {<<st.dem[neighbor_node], neighbor_node>>}]

\* line 51: the for loop over self._neighbors[node], from entry i on
RECURSIVE VisitNeighbors(_, _, _)
VisitNeighbors(st, node, i) ==
    IF i > Len(Neighbors[node]) THEN st
    ELSE VisitNeighbors(Visit(st, node, Neighbors[node][i]), node, i + 1)

\* lines 31-44: the fresh local state, and the open boundary seeded
PitFillBegin ==
    /\ pc = "idle"
    /\ closed' = [n \in Nodes |-> n \in OpenBoundary]
    /\ raised_node' = <<>>
    /\ priority_queue' = {<<dem[i], i>> : i \in OpenBoundary}
    /\ pc' = "flood"
    /\ UNCHANGED <<status_at_node, z0, grid_elev, dem, fills, first_fill>>
    /\ UNCHANGED chiVars

\* lines 46-48 and 51-61: a node comes off the plateau FIFO
FloodFromRaised ==
    /\ pc = "flood"
    /\ raised_node # <<>>
    /\ LET node == Head(raised_node)
           st == VisitNeighbors([dem |-> dem, closed |-> closed,
                                 raised |-> Tail(raised_node),
                                 pq |-> priority_queue], node, 1)
       IN  /\ dem' = st.dem
           /\ closed' = st.closed
           /\ raised_node' = st.raised
           /\ priority_queue' = st.pq
    /\ UNCHANGED <<status_at_node, z0, grid_elev, pc, fills, first_fill>>
    /\ UNCHANGED chiVars

\* lines 46-47, 49-50 and 51-61: a node comes off the priority queue
FloodFromPriority ==
    /\ pc = "flood"
    /\ raised_node = <<>>
    /\ priority_queue # {}
    /\ LET top == PriorityGet(priority_queue)
           node == top[2]
           st == VisitNeighbors([dem |-> dem, closed |-> closed,
                                 raised |-> raised_node,
                                 pq |-> priority_queue \ {top}], node, 1)
       IN  /\ dem' = st.dem
           /\ closed' = st.closed
           /\ raised_node' = st.raised
           /\ priority_queue' = st.pq
    /\ UNCHANGED <<status_at_node, z0, grid_elev, pc, fills, first_fill>>
    /\ UNCHANGED chiVars

\* lines 46, 63-64: both queues empty, the field is replaced by _dem
PitFillEnd ==
    /\ pc = "flood"
    /\ raised_node = <<>>
    /\ priority_queue = {}
    /\ grid_elev' = dem
    /\ first_fill' = IF fills = "none" THEN dem ELSE first_fill
    /\ fills' = IF fills = "none" THEN "one" ELSE "several"
    /\ pc' = "idle"
    /\ UNCHANGED <<status_at_node, z0, dem, closed, raised_node, priority_queue>>
    /\ UNCHANGED chiVars

\* lines 17-26: a new PitFiller on the same grid copies the field as it is now
NewPitFiller ==
    /\ pc = "idle"
    /\ dem' = grid_elev
    /\ UNCHANGED <<status_at_node, z0, grid_elev, closed, raised_node,
                   priority_queue, pc, fills, first_fill>>
    /\ UNCHANGED chiVars

InitPitFill ==
    /\ ChiFinderUnused
    /\ status_at_node \in {StatusArray(t) : t \in StatusChoices}
    /\ z0 \in [Nodes -> Elevations]
    /\ grid_elev = z0
    /\ dem = z0
    /\ closed = [n \in Nodes |-> FALSE]
    /\ raised_node = <<>>
    /\ priority_queue = {}
    /\ pc = "idle"
    /\ fills = "none"
    /\ first_fill = z0

NextPitFill ==
    \/ PitFillBegin
    \/ FloodFromRaised
    \/ FloodFromPriority
    \/ PitFillEnd
    \/ NewPitFiller

SpecPitFill == InitPitFill /\ [][NextPitFill]_vars

(***************************************************************************)
(* Floating point values of ChiFinder.  A value is a pair <<n, d>>: the    *)
(* fraction n/d in lowest terms when d > 0, inf as <<1, 0>> and nan as     *)
(* <<0, 0>>, so that 1/0 and 0/0 are what numpy makes of them.  Sums and   *)
(* products are exact: rounding is not modelled.  No value below zero is   *)
(* ever added or multiplied (reference areas <= 0 stop at the assert).     *)
(***************************************************************************)
NaN == <<0, 0>>

Inf == <<1, 0>>

Num(k) == <<k, 1>>

RECURSIVE GCD(_, _)
GCD(a, b) == IF b = 0 THEN a ELSE GCD(b, a % b)

\* n/d in lowest terms, for n >= 0 and d >= 0
Frac(n, d) ==
    IF d = 0 THEN (IF n = 0 THEN NaN ELSE Inf)
    ELSE LET g == GCD(n, d) IN <<n \div g, d \div g>>

IsNaN(a) == a = NaN

FAdd(a, b) ==
    IF IsNaN(a) \/ IsNaN(b) THEN NaN
    ELSE IF a = Inf \/ b = Inf THEN Inf
    ELSE Frac(a[1] * b[2] + b[1] * a[2], a[2] * b[2])

FMul(a, b) ==
    IF IsNaN(a) \/ IsNaN(b) THEN NaN
    ELSE IF a = Inf \/ b = Inf
         THEN (IF a = Num(0) \/ b = Num(0) THEN NaN ELSE Inf)
    ELSE Frac(a[1] * b[1], a[2] * b[2])

FDiv(a, b) ==
    IF IsNaN(a) \/ IsNaN(b) THEN NaN
    ELSE IF b = Inf THEN (IF a = Inf THEN NaN ELSE Num(0))
    ELSE IF a = Inf THEN Inf
    ELSE Frac(a[1] * b[2], a[2] * b[1])

\* x ** k for a whole exponent k >= 0 (numpy: anything ** 0 is 1)
RECURSIVE FPow(_, _)
FPow(x, k) == IF k = 0 THEN Num(1)
              ELSE IF k = 1 THEN x
              ELSE FMul(x, FPow(x, k - 1))

\* a >= b as Python compares floats: False when either is nan
FGe(a, b) ==
    IF IsNaN(a) \/ IsNaN(b) THEN FALSE
    ELSE IF a = Inf THEN TRUE
    ELSE IF b = Inf THEN FALSE
    ELSE a[1] * b[2] >= b[1] * a[2]

\* a > 0. as line 198 tests it (a may be below zero here)
FPositive(a) == a = Inf \/ (a[2] > 0 /\ a[1] > 0)

\* Python's None
None == <<>>

(***************************************************************************)
(* The grid and flow network handed to ChiFinder: three nodes 0, 1, 2.     *)
(***************************************************************************)
\* drainage areas are drawn from 0..MaxArea
MaxArea == 2

ChiNodes == {0, 1, 2}

\* the constructor's default for min_drainage_area (1.e6)
DefaultMinDrainageArea == 1000000

\* the area of every cell of the raster (grid.cell_area_at_node at a core node)
CellArea == 1

\* what the flow router leaves in the grid: per node (entry n + 1) the
\* receiver and the link to it, the upstream node order, and the length of
\* each link (entry l + 1)
FlowNetworks ==
    { \* a channel 2 -> 1 -> 0 with equal spacing
      [receiver |-> <<0, 0, 1>>, order |-> <<0, 1, 2>>,
       links |-> <<BAD_INDEX_VALUE, 0, 1>>, length |-> <<1, 1, 1>>],
      \* a channel 1 -> 2 -> 0 with unequal spacing
      [receiver |-> <<0, 2, 0>>, order |-> <<0, 2, 1>>,
       links |-> <<BAD_INDEX_VALUE, 2, 0>>, length |-> <<3, 2, 1>>],
      \* two tributaries 1 -> 0 and 2 -> 0
      [receiver |-> <<0, 0, 0>>, order |-> <<0, 2, 1>>,
       links |-> <<BAD_INDEX_VALUE, 1, 2>>, length |-> <<2, 1, 3>>],
      \* two outlets 0 and 1, and 2 -> 1
      [receiver |-> <<0, 1, 1>>, order |-> <<1, 0, 2>>,
       links |-> <<BAD_INDEX_VALUE, BAD_INDEX_VALUE, 0>>, length |-> <<2, 1, 3>>],
      \* every node its own receiver
      [receiver |-> <<0, 1, 2>>, order |-> <<2, 0, 1>>,
       links |-> <<BAD_INDEX_VALUE, BAD_INDEX_VALUE, BAD_INDEX_VALUE>>,
       length |-> <<1, 1, 1>>] }

\* the status arrays of the grid (entry n + 1)
ChiStatusChoices ==
    { <<1, 0, 0>>,      \* node 0 an open boundary node
      <<4, 0, 0>>,      \* node 0 a closed boundary node
      <<1, 1, 1>> }     \* no core node

\* the flow router drains core nodes only: a boundary node is its own receiver
Routable(net, status) ==
    \A n \in ChiNodes : net.receiver[n + 1] # n => status[n] = CORE_NODE

\* drainage area does not decrease downstream
Accumulated(net, area) ==
    \A n \in ChiNodes : area[net.receiver[n + 1]] >= area[n]

\* the keyword arguments of the constructor (lines 152-153)
CtorChoices ==
    { [reference_concavity |-> 1, min_drainage_area |-> 2,
       reference_area |-> None, use_true_dx |-> FALSE],
      [reference_concavity |-> 1, min_drainage_area |-> 2,
       reference_area |-> Num(2), use_true_dx |-> TRUE] }

\* the keyword arguments of one calculate_chi call: per key <<>> when the
\* key is not given, <<v>> when it is given as v
KwdsChoices ==
    [reference_concavity : {<<>>, <<0>>},
     min_drainage_area : {<<>>, <<0>>, <<DefaultMinDrainageArea>>},
     reference_area : {<<>>, <<None>>, <<Num(0)>>},
     use_true_dx : {<<>>, <<TRUE>>}]

\* kwds.get(key, default)
Get(given, default) == IF Len(given) = 0 THEN default ELSE given[1]

(***************************************************************************)
(* ChiFinder                                                               *)
(***************************************************************************)
CoreNodes == {n \in ChiNodes : status_at_node[n] = CORE_NODE}

\* lines 161-165 and 194-197: float(cell_area_at_node) raises TypeError for
\* the array, and the mean over the core nodes is taken (nan when there is
\* no core node)
MeanCoreCellArea == Frac(CellArea * Cardinality(CoreNodes), Cardinality(CoreNodes))

\* lines 158-169: the defaults the constructor stores
StoredDefaults(kw) ==
    [reftheta |-> kw.reference_concavity,
     min_drainage |-> kw.min_drainage_area,
     A0 |-> IF kw.reference_area = None THEN MeanCoreCellArea
            ELSE kw.reference_area,
     use_true_dx |-> kw.use_true_dx]

\* lines 170-171: the arrays the constructor makes
ZeroChi == [n \in ChiNodes |-> Num(0)]

OnesMask == [n \in ChiNodes |-> TRUE]

\* line 187
FilledMask(m) == [n \in ChiNodes |-> TRUE]

\* line 188
FilledChiKept(c) == c

FilledChi(c) == [n \in ChiNodes |-> Num(0)]

\* lines 190-192 and 199: the options in force for this call
Effective(stored, kwds) ==
    [reftheta |-> Get(kwds.reference_concavity, stored.reftheta),
     min_drainage |-> Get(kwds.min_drainage_area, stored.min_drainage),
     A0 |-> Get(kwds.reference_area, stored.A0),
     use_true_dx |-> Get(kwds.use_true_dx, stored.use_true_dx)]

\* lines 193-197
ResolvedA0(A0) == IF A0 = None THEN MeanCoreCellArea ELSE A0

\* lines 201-204: the nodes at or above the threshold, in upstream order
ValidUpstrOrder(min_drainage) ==
    LET Valid(n) == drainage_area[n] >= min_drainage
    IN  SelectSeq(upstream_node_order, Valid)

\* lines 208 and 214: (A0/area) ** reftheta at one node
Integrand(A0, reftheta, n) == FPow(FDiv(A0, Num(drainage_area[n])), reftheta)

\* lines 402-405 with the mean taken over all the nodes, linked or not
MeanChannelNodeSpacingAll(ch_nodes) ==
    LET IsLink(n) == links_to_flow_receiver[n] # BAD_INDEX_VALUE
        linked == SelectSeq(ch_nodes, IsLink)
        Sum[i \in 0 .. Len(linked)] ==
            IF i = 0 THEN 0
            ELSE Sum[i - 1] + link_length[links_to_flow_receiver[linked[i]]]
    IN  Frac(Sum[Len(linked)], Len(ch_nodes))

\* lines 402-405
MeanChannelNodeSpacing(ch_nodes) ==
    LET IsLink(n) == links_to_flow_receiver[n] # BAD_INDEX_VALUE
        linked == SelectSeq(ch_nodes, IsLink)
        Sum[i \in 0 .. Len(linked)] ==
            IF i = 0 THEN 0
            ELSE Sum[i - 1] + link_length[links_to_flow_receiver[linked[i]]]
    IN  Frac(Sum[Len(linked)], Len(linked))

\* lines 272 and 367: chi of a node from chi of its receiver
NextChiLocal(downstream, increment) == increment

NextChi(downstream, increment) == FAdd(downstream, increment)

\* lines 270-272: the loop of integrate_chi_avg_dx, from entry i on
RECURSIVE AvgDxLoop(_, _, _, _)
AvgDxLoop(valid_upstr_order, chi_integrand, chi_array, i) ==
    IF i > Len(valid_upstr_order) THEN chi_array
    ELSE LET node == valid_upstr_order[i]
             dstr_node == flow_receiver[node]
         IN  AvgDxLoop(valid_upstr_order, chi_integrand,
                       [chi_array EXCEPT ![node] =
                           NextChi(chi_array[dstr_node], chi_integrand[i])],
                       i + 1)

\* lines 267-273
IntegrateChiAvgDx(valid_upstr_order, chi_integrand, chi_array, mean_dx) ==
    LET summed == AvgDxLoop(valid_upstr_order, chi_integrand, chi_array, 1)
    IN  [n \in ChiNodes |-> FMul(summed[n], mean_dx)]

\* lines 358-367: the loop of integrate_chi_each_dx, from entry i on
RECURSIVE EachDxLoop(_, _, _, _)
EachDxLoop(valid_upstr_order, half_integrand, chi_array, i) ==
    IF i > Len(valid_upstr_order) THEN chi_array
    ELSE LET node == valid_upstr_order[i]
             dstr_node == flow_receiver[node]
             dstr_link == links_to_flow_receiver[node]
             mean_val == FAdd(half_integrand[node], half_integrand[dstr_node])
             chi_to_add == FMul(mean_val, Num(link_length[dstr_link]))
         IN  EachDxLoop(valid_upstr_order, half_integrand,
                        IF dstr_link # BAD_INDEX_VALUE
                        THEN [chi_array EXCEPT ![node] =
                                 NextChi(chi_array[dstr_node], chi_to_add)]
                        ELSE chi_array,
                        i + 1)

\* lines 352-367
IntegrateChiEachDx(valid_upstr_order, chi_integrand_at_nodes, chi_array) ==
    LET half_integrand ==
            [n \in ChiNodes |-> FMul(Frac(1, 2), chi_integrand_at_nodes[n])]
    IN  EachDxLoop(valid_upstr_order, half_integrand, chi_array, 1)

\* line 219
StampClosed(chi_array) ==
    [n \in ChiNodes |->
        IF status_at_node[n] = CLOSED_BOUNDARY THEN Num(0) ELSE chi_array[n]]

\* line 220
MaskValid(m, valid_upstr_order) ==
    [n \in ChiNodes |->
        IF \E i \in 1 .. Len(valid_upstr_order) : valid_upstr_order[i] = n
        THEN FALSE ELSE m[n]]

\* lines 207-220: the integration in the chosen mode, the closed nodes
\* stamped over and the mask set
IntegrateAndMask(filled_chi, filled_mask, eff, valid_upstr_order) ==
    LET avg_integrand ==
            [i \in 1 .. Len(valid_upstr_order) |->
                Integrand(eff.A0, eff.reftheta, valid_upstr_order[i])]
        node_integrand ==
            [n \in ChiNodes |->
                IF \E i \in 1 .. Len(valid_upstr_order) : valid_upstr_order[i] = n
                THEN Integrand(eff.A0, eff.reftheta, n) ELSE Num(0)]
        integrated ==
            IF ~eff.use_true_dx
            THEN IntegrateChiAvgDx(valid_upstr_order, avg_integrand, filled_chi,
                                   MeanChannelNodeSpacing(valid_upstr_order))
            ELSE IntegrateChiEachDx(valid_upstr_order, node_integrand, filled_chi)
    IN  [chi |-> StampClosed(integrated),
         mask |-> MaskValid(filled_mask, valid_upstr_order),
         raised |-> "no", options |-> <<eff>>]

\* lines 198-220: the assert, and the rest of the call when it passes; eff
\* holds the options in force, its A0 resolved
AssertAndIntegrate(filled_chi, filled_mask, eff) ==
    IF ~FPositive(eff.A0)
    THEN [chi |-> filled_chi, mask |-> filled_mask,
          raised |-> "AssertionError", options |-> <<>>]
    ELSE IntegrateAndMask(filled_chi, filled_mask, eff,
                          ValidUpstrOrder(eff.min_drainage))

\* lines 187-220: calculate_chi(**kwds) of a ChiFinder holding the arrays
\* chi_array and m and the defaults stored; raised names the exception that
\* ended the call, if one did
CalculateChiOf(chi_array, m, stored, kwds) ==
    AssertAndIntegrate(FilledChi(chi_array), FilledMask(m),
                       [Effective(stored, kwds) EXCEPT !.A0 = ResolvedA0(@)])

\* the defaults after a call: calculate_chi assigns none of them
DefaultsAfterCall(stored, kwds) == stored

\* calculate_chi(**kwds) on the ChiFinder; fresh_chi and fresh_mask follow
\* what a ChiFinder newly built with the same constructor arguments on the
\* grid as it is now makes of the same call
CalculateChi ==
    \E kwds \in KwdsChoices :
        \E mine \in {CalculateChiOf(chi, mask, defaults, kwds)},
           other \in {CalculateChiOf(ZeroChi, OnesMask, StoredDefaults(ctor), kwds)} :
            /\ chi' = mine.chi
            /\ mask' = mine.mask
            /\ defaults' = DefaultsAfterCall(defaults, kwds)
            /\ outcome' = IF mine.raised = "no" THEN "returned" ELSE mine.raised
            /\ last' = mine.options
            /\ fresh_chi' = other.chi
            /\ fresh_mask' = other.mask
            /\ overwritten' = \E n \in ChiNodes :
                                  chi[n] # Num(0) /\ other.chi[n] = Num(0)
            /\ UNCHANGED <<status_at_node, ctor, flow_receiver, upstream_node_order,
                           links_to_flow_receiver, link_length, drainage_area>>
            /\ UNCHANGED pitVars

\* the flow router runs again: receivers, links and order change
RouteFlow ==
    \E net \in FlowNetworks :
        /\ Routable(net, status_at_node)
        /\ Accumulated(net, drainage_area)
        /\ flow_receiver' = [n \in ChiNodes |-> net.receiver[n + 1]]
        /\ links_to_flow_receiver' = [n \in ChiNodes |-> net.links[n + 1]]
        /\ upstream_node_order' = net.order
        /\ link_length' = [l \in ChiNodes |-> net.length[l + 1]]
        /\ outcome' = "routed"
        /\ UNCHANGED <<status_at_node, ctor, drainage_area, defaults, chi, mask,
                       last, fresh_chi, fresh_mask, overwritten>>
        /\ UNCHANGED pitVars

InitChi ==
    /\ PitFillerUnused
    /\ ctor \in CtorChoices
    /\ \E s \in ChiStatusChoices, net \in FlowNetworks :
          /\ Routable(net, [n \in ChiNodes |-> s[n + 1]])
          /\ status_at_node = [n \in ChiNodes |-> s[n + 1]]
          /\ flow_receiver = [n \in ChiNodes |-> net.receiver[n + 1]]
          /\ links_to_flow_receiver = [n \in ChiNodes |-> net.links[n + 1]]
          /\ upstream_node_order = net.order
          /\ link_length = [l \in ChiNodes |-> net.length[l + 1]]
          /\ drainage_area \in {a \in [ChiNodes -> 0 .. MaxArea] : Accumulated(net, a)}
    /\ defaults = StoredDefaults(ctor)
    /\ chi = ZeroChi
    /\ mask = OnesMask
    /\ outcome = "constructed"
    /\ last = <<>>
    /\ fresh_chi = ZeroChi
    /\ fresh_mask = OnesMask
    /\ overwritten = FALSE

NextChiFinder ==
    \/ CalculateChi
    \/ RouteFlow

SpecChi == InitChi /\ [][NextChiFinder]_vars


(***************************************************************************)
(* Properties of PitFiller.                                                *)
(***************************************************************************)
\* the nodes the neighbour lists of each node name
NeighborSet ==
    [n \in Nodes |-> {Neighbors[n][i] : i \in 1 .. Len(Neighbors[n])} \ {-1}]

\* the steps <<n, m>> from a node to one its neighbour lists name
NeighborEdges == {e \in Nodes \X Nodes : e[2] \in NeighborSet[e[1]]}

\* the nodes from which a node of T is reached along the steps of E
RECURSIVE ReachTo(_, _)
ReachTo(T, E) ==
    LET U == T \cup {e[1] : e \in {x \in E : x[2] \in T}}
    IN  IF U = T THEN T ELSE ReachTo(U, E)

\* a pit_fill call has returned
Filled == pc = "idle" /\ fills # "none"

\* n lies strictly below every neighbour in the surface z
IsPit(z, n) == \A m \in NeighborSet[n] : z[n] < z[m]

\* C1: pit_fill only ever raises: at every step of the flood loop, and after
\* any number of pit_fill calls, the working elevation and the elevation field
\* of every node are at least the node's input elevation.
C1_OnlyRaises ==
    \A n \in Nodes : dem[n] >= z0[n] /\ grid_elev[n] >= z0[n]

C1_Witness ==
    /\ pc = "idle"
    /\ fills = "several"
    /\ \E n \in Nodes : grid_elev[n] > z0[n]

\* C2: after pit_fill every visited node has a path through the neighbour
\* lists to an open boundary node along which the output elevation never
\* increases, and no visited node other than an open boundary node lies
\* strictly below all of its neighbours.
C2_NoPit ==
    Filled =>
        LET Down == {e \in NeighborEdges : grid_elev[e[2]] <= grid_elev[e[1]]}
            Drained == ReachTo(OpenBoundary, Down)
        IN  \A n \in Nodes :
                closed[n] =>
                    /\ n \in Drained
                    /\ n \in OpenBoundary \/ ~IsPit(grid_elev, n)

C2_Witness ==
    /\ Filled
    /\ \E n \in Nodes \ OpenBoundary :
            closed[n] /\ IsPit(z0, n) /\ grid_elev[n] > z0[n]

\* the nodes joined to an open boundary node by a neighbour path on which no
\* input elevation exceeds L
Flooded(L) ==
    LET Below == {e \in NeighborEdges : z0[e[1]] <= L /\ z0[e[2]] <= L}
    IN  ReachTo({o \in OpenBoundary : z0[o] <= L}, Below)

\* the smallest, over the neighbour paths from n to an open boundary node, of
\* the highest input elevation on the path (n and the boundary node included)
WaterLevel(flooded, n) ==
    CHOOSE L \in DOMAIN flooded :
        n \in flooded[L] /\ \A K \in DOMAIN flooded : n \in flooded[K] => L <= K

\* C3: after pit_fill the elevation of every visited node is its water level.
C3_WaterLevel ==
    Filled =>
        LET flooded == [L \in {z0[m] : m \in Nodes} |-> Flooded(L)]
        IN  \A n \in Nodes :
                closed[n] =>
                    /\ \E L \in DOMAIN flooded : n \in flooded[L]
                    /\ grid_elev[n] = WaterLevel(flooded, n)

\* an interior pit filled to an escape route that is not the highest ground
C3_Witness ==
    /\ Filled
    /\ \E n \in Nodes \ OpenBoundary :
            /\ closed[n]
            /\ IsPit(z0, n)
            /\ grid_elev[n] > z0[n]
            /\ \E m \in Nodes : z0[m] > grid_elev[n]

\* C4: a second pit_fill, by the same PitFiller or by a new one built on the
\* filled grid, leaves every elevation as the first fill left it.
C4_Idempotent ==
    (pc = "idle" /\ fills = "several") => grid_elev = first_fill

\* a further fill of a surface the first fill had to change
C4_Witness ==
    /\ pc = "idle"
    /\ fills = "several"
    /\ first_fill # z0

\* every neighbour path from n to an open boundary node meets a closed
\* boundary node (n itself is none)
Enclosed(n) ==
    LET Free == {e \in NeighborEdges :
                     /\ status_at_node[e[1]] # CLOSED_BOUNDARY
                     /\ status_at_node[e[2]] # CLOSED_BOUNDARY}
    IN  n \notin ReachTo(OpenBoundary, Free)

\* C10: a node fully enclosed by closed boundary nodes is never marked
\* visited by pit_fill and keeps its input elevation.
C10_EnclosedUntouched ==
    \A n \in Nodes :
        Enclosed(n) => (pc = "flood" \/ Filled => ~closed[n]) /\ dem[n] = z0[n]

\* the nodes waiting in the plateau FIFO, and in the priority queue
InRaised == {raised_node[i] : i \in 1 .. Len(raised_node)}

InPriority == {e[2] : e \in priority_queue}

\* the nodes reached from an open boundary node through the neighbour lists
Reachable ==
    ReachTo(OpenBoundary, {<<e[2], e[1]>> : e \in NeighborEdges})

\* every queued node is queued once, in one queue, and is marked; neither
\* queue holds more than its capacity of n entries
QueuesSound ==
    /\ Cardinality(InRaised) = Len(raised_node)
    /\ Cardinality(InPriority) = Cardinality(priority_queue)
    /\ InRaised \cap InPriority = {}
    /\ \A n \in InRaised \cup InPriority : closed[n]
    /\ Len(raised_node) <= number_of_nodes
    /\ Cardinality(priority_queue) <= number_of_nodes

\* a step of the loop pops one node, and the nodes it inserts are the nodes
\* it marks, none of which was marked before; no mark is taken back
PopsOneInsertsUnmarked ==
    (pc = "flood" /\ pc' = "flood") =>
        LET queued == InRaised \cup InPriority
            queued_after == InRaised' \cup InPriority'
        IN  /\ Cardinality(queued \ queued_after) = 1
            /\ queued_after \ queued = {n \in Nodes : closed'[n] /\ ~closed[n]}
            /\ \A n \in Nodes : closed[n] => closed'[n]

\* the passes of the loop still to come are bounded: a node not yet marked
\* is still to be inserted and popped, a queued node still to be popped
PassesLeft(marked, queued) ==
    2 * Cardinality(Nodes \ marked) + Cardinality(queued)

\* every pass of the loop lowers the bound
BoundDecreases ==
    (pc = "flood" /\ pc' = "flood") =>
        PassesLeft({n \in Nodes : closed'[n]}, InRaised' \cup InPriority')
            < PassesLeft({n \in Nodes : closed[n]}, InRaised \cup InPriority)

\* no pass of the loop waits: a get is made on a queue that holds an entry
\* (lines 46-50; the priority queue has a least one to hand out), and a put
\* on a queue below its capacity
NeverWaits ==
    /\ QueuesSound
    /\ raised_node = <<>> /\ priority_queue # {} =>
          PriorityGet(priority_queue) \in priority_queue

\* the loop has ended: the marked nodes, each inserted once and popped, are
\* the nodes reachable from an open boundary node; without an open boundary
\* node the surface is returned as it was
EndsDrained ==
    Filled =>
        /\ raised_node = <<>> /\ priority_queue = {}
        /\ {n \in Nodes : closed[n]} = Reachable
        /\ OpenBoundary = {} => grid_elev = z0

\* C11: pit_fill terminates on every grid and elevation field, a grid without
\* open boundary node included (the surface is then returned unchanged): the
\* passes of its loop are bounded and none waits; the loop ends with both
\* queues empty, every node reachable from an open boundary node inserted
\* into a queue once and popped once, and no queue ever holds more than n
\* entries, so that no insertion blocks.
C11_Terminates ==
    /\ [](pc = "flood" => NeverWaits)
    /\ [][PopsOneInsertsUnmarked /\ BoundDecreases]_vars
    /\ []EndsDrained

\* a fill has returned on a grid with an open boundary node, having marked
\* every node and raised some
C11_Witness ==
    /\ Filled
    /\ fills = "one"
    /\ OpenBoundary # {}
    /\ \A n \in Nodes : closed[n]
    /\ grid_elev # z0

(***************************************************************************)
(* Properties of ChiFinder                                                 *)
(***************************************************************************)
\* the nodes at or above the threshold in force in the call that returned last
ValidNodes == {n \in ChiNodes : drainage_area[n] >= last[1].min_drainage}

\* chi does not decrease from the receiver of a valid node to the node
NonDecreasingUpstream ==
    \A n \in ValidNodes :
        flow_receiver[n] # n => FGe(chi[n], chi[flow_receiver[n]])

\* C5: after calculate_chi the mask is False exactly at the nodes at or above
\* the threshold in force, and chi is 0 at every node below it, in both
\* integration modes.
C5_ThresholdExclusion ==
    outcome = "returned" =>
        \A n \in ChiNodes :
            /\ mask[n] = FALSE <=> n \in ValidNodes
            /\ n \notin ValidNodes => chi[n] = Num(0)

\* C6: when no node meets the threshold, calculate_chi returns with chi 0
\* and the mask True at every node, in both integration modes.
C6_NoValidNode ==
    (outcome = "returned" /\ ValidNodes = {}) =>
        chi = ZeroChi /\ mask = OnesMask

\* C7: a calculate_chi call that fails on its reference area leaves the chi
\* array and the mask as they were before the call.
C7_FailFast ==
    [][outcome' = "AssertionError" => (chi' = chi /\ mask' = mask)]_vars

\* C8: after any sequence of calls and reroutings, chi and the mask are those
\* a newly built ChiFinder with the same constructor arguments has after the
\* last call alone, and the stored defaults are those of the constructor.
C8_HistoryIndependent ==
    /\ chi = fresh_chi
    /\ mask = fresh_mask
    /\ defaults = StoredDefaults(ctor)

\* a call returned that had a nonzero chi of an earlier call to clear
C8_Witness ==
    /\ outcome = "returned"
    /\ overwritten
    /\ \E n \in ChiNodes : chi[n] # Num(0)

LinkedNodes ==
    {n \in ValidNodes : links_to_flow_receiver[n] # BAD_INDEX_VALUE}

\* the sum of the lengths of the links of the nodes of S to their receivers
RECURSIVE LinkLengthSum(_)
LinkLengthSum(S) ==
    IF S = {} THEN 0
    ELSE LET n == CHOOSE x \in S : TRUE
         IN  link_length[links_to_flow_receiver[n]] + LinkLengthSum(S \ {n})

\* the average length of the links of the valid nodes to their receivers
MeanSpacing == Frac(LinkLengthSum(LinkedNodes), Cardinality(LinkedNodes))

\* (A0/area(m))^theta summed over the nodes m of the flow path from n down
\* to its outlet, both included, with the options of the last call
RECURSIVE PathSum(_)
PathSum(n) ==
    LET own == Integrand(last[1].A0, last[1].reftheta, n)
    IN  IF flow_receiver[n] = n THEN own
        ELSE FAdd(PathSum(flow_receiver[n]), own)

\* a uniform-spacing call has returned and its mean spacing is that of a link
UniformReturned ==
    /\ outcome = "returned"
    /\ ~last[1].use_true_dx
    /\ LinkedNodes # {}

\* one straight channel 2 -> 1 -> 0 of equal areas and spacing 1, all of it
\* valid, with theta = 1 and A0 the area
StraightChannel ==
    /\ flow_receiver = [n \in ChiNodes |-> IF n = 0 THEN 0 ELSE n - 1]
    /\ ValidNodes = ChiNodes
    /\ \A n \in ChiNodes : Num(drainage_area[n]) = last[1].A0
    /\ MeanSpacing = Num(1)
    /\ last[1].reftheta = 1

====
